---- MODULE Spec2Model ----
(***************************************************************************)
(* Event check-in client: DataSourceManager, the three data source         *)
(* adapters (CSV, Google Sheets, Supabase), the optimistic check-in toggle *)
(* and the real-time update handler, together with the backends they talk  *)
(* to (attendees.json / checkins.json behind csv-handler.php, the          *)
(* published sheet, the Supabase table).                                   *)
(***************************************************************************)
EXTENDS Integers, Sequences, FiniteSets, Bags, TLC

(***************************************************************************)
(* Bounds of the exploration.                                              *)
(***************************************************************************)
MaxSwitches == 2      \* confirmed switchDataSource calls in one page life
MaxManagerSwitches == 1   \* of which SpecManager, with every load outcome, follows
MaxInFlight == 2      \* promises pending at once: loadData() and updateAttendee()
MaxTime == 1          \* distinct values of new Date().toISOString()
MaxRowChanges == 1    \* rows removed from a backend by its owner
MaxRows == 2          \* rows of a snapshot whose ids are computed
MaxRequests == 2      \* check-in requests the endpoint receives

(***************************************************************************)
(* Values.                                                                 *)
(***************************************************************************)
Null == 0                       \* JavaScript null (checkedInAt, timer handle)
DefaultPollInterval == 5000     \* `|| 5000` in setupPolling

Timestamps == 1..MaxTime
PollIntervals == {-1, DefaultPollInterval}

SourceTypes == {"csv", "googlesheets", "supabase"}
RequestTypes == SourceTypes \cup {"unknown"}
PollingTypes == {"csv", "googlesheets"}

\* Row order of each backend; the ids are the ones the normalizers produce.
CsvIds == <<"csv_2", "csv_3">>
SheetIds == <<"gsheet_ann_0", "gsheet_bob_1">>
DbIds == <<"db_1", "db_2">>

Range(s) == {s[i] : i \in DOMAIN s}
FileIdSet == Range(CsvIds) \cup Range(SheetIds)
DbIdSet == Range(DbIds)
AllIds == FileIdSet \cup DbIdSet

\* The (status, checkedInAt) pairs a client ever sends to a backend.
StatusPairs ==
    {[status |-> "pending", checkedInAt |-> Null]} \cup
    {[status |-> "checked-in", checkedInAt |-> t] : t \in Timestamps}

\* checkins.json has no entry for the attendee id.
NoEntry == [status |-> "none", checkedInAt |-> Null]

\* A payload without a `new` record.
NoRecord == [id |-> "none", status |-> "none", checkedInAt |-> Null]

NoSource == [type |-> "none", inst |-> 0]

VARIABLES
    attendees,          \* window.attendees
    filteredAttendees,  \* window.filteredAttendees
    currentSource,      \* DataSourceManager.currentSource
    pollingInterval,    \* DataSourceManager.pollingInterval (handle or Null)
    liveTimers,         \* setInterval handles the browser still fires
    config,             \* window.EventCheckinConfig.dataSource
    initialized,        \* DataSourceManager.init() has run
    switches,           \* confirmed switches so far
    loads,              \* bag of the loadData() promises not yet settled
    toggles,            \* toggleCheckIn() calls suspended at their await
    subscribed,         \* adapter objects with a live real-time channel
    present,            \* ids of the rows each backend currently holds
    checkins,           \* checkins.json: attendeeId -> {status, checkedInAt}
    dbTable,            \* Supabase rows: id -> {status, checked_in_at}
    rowChanges,         \* rows removed so far
    sync,               \* the syncFromGoogleSheet() call in progress, if any
    raw,                \* the cells of the row handed to an importer
    parsed,             \* what the importer made of it
    idRuns,             \* the ids two successive loads gave to one snapshot
    saved,              \* localStorage and the settings in effect after a reload
    email,              \* an address handed to EmailValidator and its verdicts
    delta,              \* a database row as loaded and as pushed
    requests,           \* check-in requests inside csv-handler.php
    lastEvent           \* history: the handler that ran last and its outcome

vars == <<attendees, filteredAttendees, currentSource, pollingInterval,
          liveTimers, config, initialized, switches, loads,
          toggles, subscribed, present, checkins, dbTable, rowChanges,
          sync, raw, parsed, idRuns, saved, email, delta, requests, lastEvent>>

clientVars == <<attendees, filteredAttendees, currentSource, pollingInterval,
                liveTimers, config, initialized, switches, loads,
                toggles, subscribed>>
backendVars == <<present, checkins, dbTable, rowChanges>>
importVars == <<sync, raw, parsed>>
toolVars == <<idRuns, saved, email, delta, requests>>

\* No syncFromGoogleSheet() call, no row and no import result yet.
NoSync == [phase |-> "idle", outcomes |-> <<>>, tried |-> <<>>, result |-> <<>>]
NoRow == <<>>
NoAttendee ==
    [tableNumber |-> "", groupName |-> "", attendeeName |-> "",
     ticketType |-> "", status |-> ""]
NoParse == [by |-> "none", kept |-> FALSE, rec |-> NoAttendee]
NoIds ==
    [phase |-> "idle", src |-> "none", snapshot |-> <<>>, first |-> <<>>,
     second |-> <<>>]
NoSaved == [phase |-> "idle", stored |-> <<>>, effective |-> <<>>]
NoEmail == [phase |-> "idle", input |-> <<>>, isValid |-> FALSE, valid |-> FALSE]
NoDelta == [phase |-> "idle", row |-> <<>>, rec |-> <<>>]
NoRequests == <<>>
ToolIdle ==
    /\ idRuns = NoIds /\ saved = NoSaved /\ email = NoEmail /\ delta = NoDelta
    /\ requests = NoRequests
ImportIdle == sync = NoSync /\ raw = NoRow /\ parsed = NoParse /\ ToolIdle

Event(op, outcome) == [op |-> op, outcome |-> outcome]

(***************************************************************************)
(* Sequence helpers.                                                       *)
(***************************************************************************)
AddTo(bag, x) == bag (+) SetToBag({x})
Without(bag, x) == bag (-) SetToBag({x})

RemoveAt(s, i) == [k \in 1..(Len(s) - 1) |-> IF k < i THEN s[k] ELSE s[k + 1]]

\* Array.prototype.findIndex: first position whose record has the id, 0 if none.
FindIndex(att, id) ==
    IF \E k \in DOMAIN att : att[k].id = id
    THEN CHOOSE k \in DOMAIN att :
            /\ att[k].id = id
            /\ \A j \in DOMAIN att : att[j].id = id => k <= j
    ELSE 0

\* updateDisplay(): the rendering layer is handed the current roster.
UpdateDisplay(att) == att

(***************************************************************************)
(* Adapters.                                                               *)
(***************************************************************************)
GetType(src) == src.type

SupportsPolling(src) == src.type \in PollingTypes

Record(id, status, at) == [id |-> id, status |-> status, checkedInAt |-> at]

RowsOf(order, rows) == SelectSeq(order, LAMBDA id : id \in rows)

\* CSVDataSource.normalizeAttendeeData over the rows of attendees.json, which
\* processCsvFile stores with status 'pending' and checkedInAt null.
NormalizeCsv(ids) == [k \in DOMAIN ids |-> Record(ids[k], "pending", Null)]

\* GoogleSheetsDataSource.normalizeAttendeeData: status 'pending', checkedInAt null.
NormalizeSheet(ids) == [k \in DOMAIN ids |-> Record(ids[k], "pending", Null)]

\* SupabaseDataSource.normalizeAttendeeData: status and checked_in_at of the row.
NormalizeDb(ids, table) ==
    [k \in DOMAIN ids |->
        Record(ids[k], table[ids[k]].status, table[ids[k]].checkedInAt)]

\* A load that returns the rows without looking at the stored check-ins.
ApplyCheckinsSkipped(data, checkinData) == data

\* The overlay merge of both file-based adapters.
ApplyCheckins(data, checkinData) ==
    [k \in DOMAIN data |->
        IF data[k].id \in DOMAIN checkinData /\ checkinData[data[k].id] # NoEntry
        THEN [data[k] EXCEPT !.status = checkinData[data[k].id].status,
                             !.checkedInAt = checkinData[data[k].id].checkedInAt]
        ELSE data[k]]

Resolved(data) == [ok |-> TRUE, data |-> data]
Rejected == [ok |-> FALSE, data |-> <<>>]

\* CSVDataSource.loadData: a failed fetch of the rows resolves with [], a failed
\* fetch of the check-ins resolves with the rows without the overlay.
CsvLoadData(rows, checkinData, fetchOk, checkinOk) ==
    IF ~fetchOk THEN Resolved(<<>>)
    ELSE IF checkinOk
         THEN Resolved(ApplyCheckins(NormalizeCsv(RowsOf(CsvIds, rows)), checkinData))
         ELSE Resolved(NormalizeCsv(RowsOf(CsvIds, rows)))

\* GoogleSheetsDataSource.loadData: rejects when the sheet cannot be fetched
\* (no sheet URL configured, network failure, HTTP error status).
SheetLoadData(rows, checkinData, fetchOk, checkinOk) ==
    IF ~fetchOk THEN Rejected
    ELSE IF checkinOk
         THEN Resolved(ApplyCheckins(NormalizeSheet(RowsOf(SheetIds, rows)), checkinData))
         ELSE Resolved(NormalizeSheet(RowsOf(SheetIds, rows)))

\* SupabaseDataSource.loadData: rejects when the query cannot be made or fails
\* (no client configured, query error).
SupabaseLoadData(rows, table, fetchOk) ==
    IF ~fetchOk THEN Rejected
    ELSE Resolved(NormalizeDb(RowsOf(DbIds, rows), table))

LoadData(src, rows, checkinData, table, fetchOk, checkinOk) ==
    CASE src.type = "csv" -> CsvLoadData(rows, checkinData, fetchOk, checkinOk)
      [] src.type = "googlesheets" ->
            SheetLoadData(rows, checkinData, fetchOk, checkinOk)
      [] OTHER -> SupabaseLoadData(rows, table, fetchOk)

(***************************************************************************)
(* Configuration (config.js).                                              *)
(***************************************************************************)
NoSettings == [given |-> FALSE, pollInterval |-> 0]
Settings ==
    {NoSettings} \cup {[given |-> TRUE, pollInterval |-> p] : p \in PollIntervals}

\* setDataSource throws (Object.assign on undefined) when settings are given
\* for a type that has no entry in config.settings.
SetDataSourceThrows(type, settings) == settings.given /\ type \notin SourceTypes

\* setDataSource(type, settings) when it does not throw.
SetDataSource(cfg, type, settings) ==
    [type |-> type,
     pollInterval |->
        IF settings.given /\ type \in PollingTypes
        THEN [cfg.pollInterval EXCEPT ![type] = settings.pollInterval]
        ELSE cfg.pollInterval]

(***************************************************************************)
(* DataSourceManager.                                                      *)
(***************************************************************************)
\* loadDataSource(): the adapter for config.type; an unknown type leaves
\* currentSource as it was.
LoadDataSource(cfg, cur, inst) ==
    IF cfg.type \in SourceTypes
    THEN [type |-> cfg.type, inst |-> inst]
    ELSE cur

\* config?.settings?.[sourceType]?.pollInterval || 5000
PollIntervalOf(cfg) ==
    LET v == IF cfg.type \in PollingTypes THEN cfg.pollInterval[cfg.type] ELSE 0
    IN  IF v = 0 THEN DefaultPollInterval ELSE v

\* A setupPolling that does not ask the adapter whether it supports polling.
ArmsTimerForAnyAdapter(cfg, cur) ==
    PollIntervalOf(cfg) > 0 /\ cur # NoSource

\* setupPolling: the condition under which setInterval is called.
ArmsTimer(cfg, cur) ==
    PollIntervalOf(cfg) > 0 /\ cur # NoSource /\ SupportsPolling(cur)

\* setupPolling(): clears the timer whose handle is stored, then arms a new one
\* with handle h when the interval is positive and the adapter supports polling.
SetupPolling(cfg, cur, handle, timers, h) ==
    LET cleared == IF handle # Null THEN timers \ {handle} ELSE timers
    IN  IF ArmsTimer(cfg, cur)
        THEN [pollingInterval |-> h, liveTimers |-> cleared \cup {h}]
        ELSE [pollingInterval |-> handle, liveTimers |-> cleared]

\* A replaced roster array leaves suspended toggles holding objects that are no
\* longer part of window.attendees.
Detach(tgs) == [k \in DOMAIN tgs |-> [tgs[k] EXCEPT !.live = FALSE]]

\* Promises awaiting their backend or their continuation.
InFlight == BagCardinality(loads) + Len(toggles)

NewLoad(src, origin) ==
    [src |-> src, origin |-> origin, phase |-> "sent", result |-> Rejected]

\* DataSourceManager.init()
ManagerInit ==
    /\ ~initialized
    /\ initialized' = TRUE
    /\ currentSource' = LoadDataSource(config, currentSource, 1)
    /\ LET p == SetupPolling(config, currentSource', pollingInterval, liveTimers, 1)
       IN  /\ pollingInterval' = p.pollingInterval
           /\ liveTimers' = p.liveTimers
    /\ lastEvent' = Event("init", "done")
    /\ UNCHANGED <<attendees, filteredAttendees, config, switches, loads, toggles,
                   subscribed, backendVars>>
    /\ UNCHANGED <<importVars, toolVars>>

\* switchDataSource(newType, settings) when the adapter already has that type.
SwitchSameType(newType) ==
    /\ initialized
    /\ currentSource # NoSource /\ GetType(currentSource) = newType
    /\ lastEvent' = Event("switch", "same")
    /\ UNCHANGED <<clientVars, backendVars>>
    /\ UNCHANGED <<importVars, toolVars>>

\* A switchDataSource that clears the roster before it asks for confirmation.
SwitchDeclinedAfterClear(newType) ==
    /\ initialized
    /\ ~(currentSource # NoSource /\ GetType(currentSource) = newType)
    /\ attendees' = <<>>
    /\ filteredAttendees' = <<>>
    /\ lastEvent' = Event("switch", "declined")
    /\ UNCHANGED <<currentSource, pollingInterval, liveTimers, config, initialized,
                   switches, loads, toggles, subscribed, backendVars>>
    /\ UNCHANGED <<importVars, toolVars>>

\* switchDataSource(newType, settings) when the user answers the confirm()
\* dialog with Cancel: return false.
SwitchDeclined(newType) ==
    /\ initialized
    /\ ~(currentSource # NoSource /\ GetType(currentSource) = newType)
    /\ lastEvent' = Event("switch", "declined")
    /\ UNCHANGED <<clientVars, backendVars>>
    /\ UNCHANGED <<importVars, toolVars>>

\* switchDataSource(newType, settings) after the user confirmed, up to the
\* await of the first loadData(); cfg is the configuration it finds.
SwitchAfterConfirm(cfg, newType, settings) ==
    /\ initialized
    /\ switches < MaxSwitches
    /\ InFlight < MaxInFlight
    /\ ~(currentSource # NoSource /\ GetType(currentSource) = newType)
    /\ switches' = switches + 1
    /\ attendees' = <<>>
    /\ filteredAttendees' = UpdateDisplay(<<>>)
    /\ toggles' = Detach(toggles)
    /\ LET stopped == IF pollingInterval # Null
                      THEN liveTimers \ {pollingInterval} ELSE liveTimers
       IN  IF SetDataSourceThrows(newType, settings)
           THEN /\ config' = [cfg EXCEPT !.type = newType]
                /\ pollingInterval' = Null
                /\ liveTimers' = stopped
                /\ lastEvent' = Event("switch", "rejected")
                /\ UNCHANGED <<currentSource, loads>>
           ELSE /\ config' = SetDataSource(cfg, newType, settings)
                /\ currentSource' = LoadDataSource(config', currentSource, switches + 2)
                /\ LET p == SetupPolling(config', currentSource', Null, stopped,
                                         switches + 2)
                   IN  /\ pollingInterval' = p.pollingInterval
                       /\ liveTimers' = p.liveTimers
                /\ IF currentSource' = NoSource
                   THEN /\ lastEvent' = Event("switch", "alert")
                        /\ UNCHANGED loads
                   ELSE /\ loads' = AddTo(loads, NewLoad(currentSource', "switch"))
                        /\ lastEvent' = Event("switch", "loading")
    /\ UNCHANGED <<initialized, subscribed, backendVars>>
    /\ UNCHANGED <<importVars, toolVars>>

\* switchDataSource(newType, settings) after the user confirmed.
SwitchConfirmed(newType, settings) == SwitchAfterConfirm(config, newType, settings)

\* One firing of the setInterval callback armed by setupPolling.
PollTick(h) ==
    /\ h \in liveTimers
    /\ InFlight < MaxInFlight
    /\ loads' = AddTo(loads, NewLoad(currentSource, "poll"))
    /\ lastEvent' = Event("pollTick", "loading")
    /\ UNCHANGED <<attendees, filteredAttendees, currentSource, pollingInterval,
                   liveTimers, config, initialized, switches, toggles, subscribed,
                   backendVars>>
    /\ UNCHANGED <<importVars, toolVars>>

\* The backend answers a loadData() request (or the request fails).
LoadServe(l, fetchOk, checkinOk) ==
    /\ BagIn(l, loads)
    /\ l.phase = "sent"
    /\ LET result == LoadData(l.src, present, checkins, dbTable, fetchOk, checkinOk)
       IN  /\ loads' = AddTo(Without(loads, l),
                             [l EXCEPT !.phase = "ready", !.result = result])
           /\ lastEvent' = Event("loadServe", IF result.ok THEN "resolved" ELSE "rejected")
    /\ UNCHANGED <<attendees, filteredAttendees, currentSource, pollingInterval,
                   liveTimers, config, initialized, switches, toggles, subscribed,
                   backendVars>>
    /\ UNCHANGED <<importVars, toolVars>>

\* A handleDataSourceUpdate that merges the snapshot into the roster and keeps
\* the records the snapshot no longer has.
HandleDataSourceUpdateMerging(att, data) ==
    data \o SelectSeq(att, LAMBDA r : \A k \in DOMAIN data : data[k].id # r.id)

\* window.handleDataSourceUpdate(data)
HandleDataSourceUpdate(att, data) == data

\* What the continuation of a loadData() promise leaves in window.attendees:
\* the poll callback and switchDataSource both keep the roster when the
\* promise rejects or the data is empty.
AfterLoad(att, result) ==
    IF result.ok /\ Len(result.data) > 0
    THEN HandleDataSourceUpdate(att, result.data)
    ELSE att

LoadOutcome(result) ==
    IF ~result.ok THEN "caught"
    ELSE IF Len(result.data) > 0 THEN "replaced" ELSE "skipped"

\* The promise of a loadData() settles and its continuation runs: the .then /
\* .catch of the poll callback, or the rest of switchDataSource.
LoadDeliver(l) ==
    /\ BagIn(l, loads)
    /\ l.phase = "ready"
    /\ loads' = Without(loads, l)
    /\ attendees' = AfterLoad(attendees, l.result)
    /\ filteredAttendees' = UpdateDisplay(attendees')
    /\ toggles' = IF LoadOutcome(l.result) = "replaced" THEN Detach(toggles) ELSE toggles
    /\ lastEvent' = Event(IF l.origin = "poll" THEN "pollDone" ELSE "switchDone",
                          LoadOutcome(l.result))
    /\ UNCHANGED <<currentSource, pollingInterval, liveTimers, config, initialized,
                   switches, subscribed, backendVars>>
    /\ UNCHANGED <<importVars, toolVars>>

(***************************************************************************)
(* toggleCheckIn (optimistic update, persist, revert on error).            *)
(***************************************************************************)
\* A handler that always asks for checked-in instead of flipping.
FlipToCheckedIn(status) == "checked-in"

\* toggleCheckIn: newStatus
Flip(status) == IF status = "checked-in" THEN "pending" ELSE "checked-in"

\* An optimistic update that sets the timestamp and forgets the status.
OptimisticTimestampOnly(rec, ts) ==
    [rec EXCEPT !.checkedInAt = IF Flip(rec.status) = "checked-in" THEN ts ELSE Null]

\* The record after the optimistic update.
Optimistic(rec, ts) ==
    LET newStatus == Flip(rec.status)
    IN  [rec EXCEPT !.status = newStatus,
                    !.checkedInAt = IF newStatus = "checked-in" THEN ts ELSE Null]

\* The record after the catch block: the status is flipped back and checkedInAt
\* is set from the timestamp of this call.
Revert(rec, timestamp) ==
    LET status == Flip(rec.status)
    IN  [rec EXCEPT !.status = status,
                    !.checkedInAt = IF status = "checked-in" THEN timestamp ELSE Null]

\* History: the calls of toggleCheckIn for attendee id that are suspended when
\* another call for the same attendee begins are marked, as is the new call.
Rivals(tgs, id) ==
    [k \in DOMAIN tgs |-> IF tgs[k].id = id THEN [tgs[k] EXCEPT !.rival = TRUE] ELSE tgs[k]]

\* toggleCheckIn(attendeeId) up to the await of updateAttendee.
ToggleCheckIn(id, ts) ==
    /\ InFlight < MaxInFlight
    /\ FindIndex(attendees, id) # 0
    /\ LET pos == FindIndex(attendees, id)
           rec == Optimistic(attendees[pos], ts)
       IN  /\ attendees' = [attendees EXCEPT ![pos] = rec]
           /\ filteredAttendees' = UpdateDisplay(attendees')
           /\ toggles' = Append(Rivals(toggles, id),
                  [id |-> id, pos |-> pos, newStatus |-> rec.status,
                   timestamp |-> rec.checkedInAt, live |-> TRUE,
                   src |-> currentSource, phase |-> "sent", resolved |-> FALSE,
                   stored |-> FALSE, before |-> attendees[pos],
                   rival |-> \E k \in DOMAIN toggles : toggles[k].id = id])
           /\ lastEvent' = Event("toggle", rec.status)
    /\ UNCHANGED <<currentSource, pollingInterval, liveTimers, config, initialized,
                   switches, loads, subscribed, backendVars>>
    /\ UNCHANGED <<importVars, toolVars>>

\* Whether the backend stores the write of updateAttendee: the request must
\* reach it and succeed (httpOk).
BackendStores(src, httpOk) == src # NoSource /\ httpOk

\* CSVDataSource.updateAttendee: the catch block returns {success: true}.
CsvUpdateResolves(httpOk) == TRUE

\* GoogleSheetsDataSource.updateAttendee: rethrows.
SheetUpdateResolves(httpOk) == httpOk

\* SupabaseDataSource.updateAttendee: throws without a client, rethrows.
SupabaseUpdateResolves(httpOk) == httpOk

\* Whether the promise of updateAttendee resolves (TRUE) or rejects (FALSE).
UpdateAttendeeResolves(src, httpOk) ==
    CASE src.type = "csv" -> CsvUpdateResolves(httpOk)
      [] src.type = "googlesheets" -> SheetUpdateResolves(httpOk)
      [] src.type = "supabase" -> SupabaseUpdateResolves(httpOk)
      [] OTHER -> FALSE

\* The backend handles (or never receives) the write of a suspended toggle.
\* handleCheckin stores the entry under the id; the Supabase update touches the
\* row with that id, if there is one.  Entries for ids that no file roster
\* contains are never read back and are not kept.
ToggleServe(i, httpOk) ==
    /\ i \in DOMAIN toggles
    /\ toggles[i].phase = "sent"
    /\ LET t == toggles[i]
           pair == [status |-> t.newStatus, checkedInAt |-> t.timestamp]
           stores == BackendStores(t.src, httpOk)
       IN  /\ toggles' = [toggles EXCEPT ![i] =
                  [@ EXCEPT !.phase = "done",
                            !.resolved = UpdateAttendeeResolves(t.src, httpOk),
                            !.stored = stores]]
           /\ checkins' = IF stores /\ t.src.type \in PollingTypes /\ t.id \in FileIdSet
                          THEN [checkins EXCEPT ![t.id] = pair] ELSE checkins
           /\ dbTable' = IF stores /\ t.src.type = "supabase"
                            /\ t.id \in DbIdSet /\ t.id \in present
                         THEN [dbTable EXCEPT ![t.id] = pair] ELSE dbTable
           /\ lastEvent' = Event("toggleServe", IF stores THEN "stored" ELSE "failed")
    /\ UNCHANGED <<attendees, filteredAttendees, currentSource, pollingInterval,
                   liveTimers, config, initialized, switches, loads, subscribed,
                   present, rowChanges>>
    /\ UNCHANGED <<importVars, toolVars>>

\* The roster after the await of updateAttendee: the catch block mutates the
\* attendee object found before the await, which is part of the roster only
\* if it has not been replaced since.
AfterUpdate(att, t) ==
    IF ~t.resolved /\ t.live
    THEN [att EXCEPT ![t.pos] = Revert(att[t.pos], t.timestamp)]
    ELSE att

\* toggleCheckIn resumes after the await.
ToggleSettle(i) ==
    /\ i \in DOMAIN toggles
    /\ toggles[i].phase = "done"
    /\ attendees' = AfterUpdate(attendees, toggles[i])
    /\ filteredAttendees' = UpdateDisplay(attendees')
    /\ toggles' = RemoveAt(toggles, i)
    /\ lastEvent' = Event("toggleSettle", IF toggles[i].resolved THEN "resolved" ELSE "reverted")
    /\ UNCHANGED <<currentSource, pollingInterval, liveTimers, config, initialized,
                   switches, loads, subscribed, backendVars>>
    /\ UNCHANGED <<importVars, toolVars>>

(***************************************************************************)
(* Real-time updates.                                                      *)
(***************************************************************************)
EventTypes == {"INSERT", "UPDATE", "DELETE"}

Payloads ==
    [eventType : EventTypes,
     new : {NoRecord} \cup
           {Record(id, p.status, p.checkedInAt) : id \in DbIdSet, p \in StatusPairs}]

\* The position handleRealtimeUpdate overwrites, 0 if it leaves the roster alone.
RealtimeIndex(att, payload) ==
    IF payload.eventType = "UPDATE" /\ payload.new # NoRecord
    THEN FindIndex(att, payload.new.id)
    ELSE 0

\* A handleRealtimeUpdate that inserts the record when the id is not in the
\* roster (an upsert).
HandleRealtimeUpdateUpsert(att, payload) ==
    IF RealtimeIndex(att, payload) # 0
    THEN [att EXCEPT ![RealtimeIndex(att, payload)] =
            Record(payload.new.id, payload.new.status, payload.new.checkedInAt)]
    ELSE IF payload.new # NoRecord
         THEN Append(att, Record(payload.new.id, payload.new.status,
                                 payload.new.checkedInAt))
         ELSE att

\* window.handleRealtimeUpdate(payload)
HandleRealtimeUpdate(att, payload) ==
    IF RealtimeIndex(att, payload) # 0
    THEN [att EXCEPT ![RealtimeIndex(att, payload)] =
            Record(payload.new.id, payload.new.status, payload.new.checkedInAt)]
    ELSE att

\* SupabaseDataSource.setupRealtimeSubscription() on the current adapter.
SetupRealtimeSubscription ==
    /\ currentSource.type = "supabase"
    /\ currentSource.inst \notin subscribed
    /\ subscribed' = subscribed \cup {currentSource.inst}
    /\ lastEvent' = Event("subscribe", "done")
    /\ UNCHANGED <<attendees, filteredAttendees, currentSource, pollingInterval,
                   liveTimers, config, initialized, switches, loads, toggles,
                   backendVars>>
    /\ UNCHANGED <<importVars, toolVars>>

\* A postgres_changes notification reaches the callback of a live channel.
RealtimeUpdate(payload) ==
    /\ subscribed # {}
    /\ attendees' = HandleRealtimeUpdate(attendees, payload)
    /\ filteredAttendees' = UpdateDisplay(attendees')
    /\ toggles' = [k \in DOMAIN toggles |->
                     IF toggles[k].live /\ toggles[k].pos = RealtimeIndex(attendees, payload)
                     THEN [toggles[k] EXCEPT !.live = FALSE] ELSE toggles[k]]
    /\ lastEvent' = Event("realtime", IF RealtimeIndex(attendees, payload) # 0
                                      THEN "applied" ELSE "ignored")
    /\ UNCHANGED <<currentSource, pollingInterval, liveTimers, config, initialized,
                   switches, loads, subscribed, backendVars>>
    /\ UNCHANGED <<importVars, toolVars>>

(***************************************************************************)
(* The owner of a backend removes a row (a shorter upload, a shortened     *)
(* sheet, a deleted table row).                                            *)
(***************************************************************************)
\* The ids of the file backends are made from the row position, so a shorter
\* upload drops the ids of the last rows; table rows are removed last first.
LastRow(order, rows) == RowsOf(order, rows)[Len(RowsOf(order, rows))]

RemoveRow(id) ==
    /\ rowChanges < MaxRowChanges
    /\ id \in present
    /\ \E order \in {CsvIds, SheetIds, DbIds} :
          id \in Range(order) /\ id = LastRow(order, present)
    /\ present' = present \ {id}
    /\ rowChanges' = rowChanges + 1
    /\ lastEvent' = Event("removeRow", "done")
    /\ UNCHANGED <<clientVars, checkins, dbTable>>
    /\ UNCHANGED <<importVars, toolVars>>

(***************************************************************************)
(* Specification.                                                          *)
(***************************************************************************)
PageInit ==
    /\ attendees = <<>>
    /\ filteredAttendees = <<>>
    /\ currentSource = NoSource
    /\ pollingInterval = Null
    /\ liveTimers = {}
    /\ config \in [type : SourceTypes,
                   pollInterval : {[t \in PollingTypes |-> DefaultPollInterval]}]
    /\ initialized = FALSE
    /\ switches = 0
    /\ loads = EmptyBag
    /\ toggles = <<>>
    /\ subscribed = {}
    /\ present = AllIds
    /\ checkins = [id \in FileIdSet |-> NoEntry]
    /\ dbTable = [id \in DbIdSet |-> [status |-> "pending", checkedInAt |-> Null]]
    /\ rowChanges = 0
    /\ lastEvent = Event("pageLoad", "done")

Init == PageInit /\ ImportIdle

Next ==
    \/ ManagerInit
    \/ \E newType \in RequestTypes : SwitchSameType(newType)
    \/ \E newType \in RequestTypes : SwitchDeclined(newType)
    \/ \E newType \in RequestTypes, settings \in Settings :
            SwitchConfirmed(newType, settings)
    \/ \E h \in liveTimers : PollTick(h)
    \/ \E l \in BagToSet(loads), fetchOk \in BOOLEAN, checkinOk \in BOOLEAN :
            LoadServe(l, fetchOk, checkinOk)
    \/ \E l \in BagToSet(loads) : LoadDeliver(l)
    \/ \E id \in AllIds, ts \in Timestamps : ToggleCheckIn(id, ts)
    \/ \E i \in DOMAIN toggles, httpOk \in BOOLEAN : ToggleServe(i, httpOk)
    \/ \E i \in DOMAIN toggles : ToggleSettle(i)
    \/ SetupRealtimeSubscription
    \/ \E payload \in Payloads : RealtimeUpdate(payload)
    \/ \E id \in AllIds : RemoveRow(id)

\* The whole system.
Spec == Init /\ [][Next]_vars

(***************************************************************************)
(* The manager on its own: initialisation, source switches, the poll timer *)
(* and the loads they start, over backends whose rows come and go.         *)
(***************************************************************************)
NextManager ==
    \/ ManagerInit
    \/ \E newType \in RequestTypes : SwitchSameType(newType)
    \/ \E newType \in RequestTypes : SwitchDeclined(newType)
    \/ \E newType \in RequestTypes, settings \in Settings :
            switches < MaxManagerSwitches /\ SwitchConfirmed(newType, settings)
    \/ \E h \in liveTimers : PollTick(h)
    \/ \E l \in BagToSet(loads), fetchOk \in BOOLEAN, checkinOk \in BOOLEAN :
            LoadServe(l, fetchOk, checkinOk)
    \/ \E l \in BagToSet(loads) : LoadDeliver(l)
    \/ \E id \in AllIds : RemoveRow(id)

SpecManager == Init /\ [][NextManager]_vars

(***************************************************************************)
(* One page with its roster loaded: check-in toggles, poll loads and       *)
(* real-time updates against the active adapter.  The initial states are   *)
(* the states of Spec in which the first snapshot has just been published: *)
(* for the polling sources after init() and the first poll, for Supabase   *)
(* after a switch from the default CSV source and its initial load.        *)
(***************************************************************************)
DefaultIntervals == [t \in PollingTypes |-> DefaultPollInterval]

LoadedByPoll(type) ==
    /\ config = [type |-> type, pollInterval |-> DefaultIntervals]
    /\ currentSource = [type |-> type, inst |-> 1]
    /\ pollingInterval = 1
    /\ liveTimers = {1}
    /\ switches = 0
    /\ attendees = LoadData(currentSource, present, checkins, dbTable, TRUE, TRUE).data
    /\ lastEvent = Event("pollDone", "replaced")

LoadedBySwitch ==
    /\ config = [type |-> "supabase", pollInterval |-> DefaultIntervals]
    /\ currentSource = [type |-> "supabase", inst |-> 2]
    /\ pollingInterval = Null
    /\ liveTimers = {}
    /\ switches = 1
    /\ attendees = LoadData(currentSource, present, checkins, dbTable, TRUE, TRUE).data
    /\ lastEvent = Event("switchDone", "replaced")

InitRoster ==
    /\ initialized = TRUE
    /\ loads = EmptyBag
    /\ toggles = <<>>
    /\ subscribed = {}
    /\ present = AllIds
    /\ checkins = [id \in FileIdSet |-> NoEntry]
    /\ dbTable = [id \in DbIdSet |-> [status |-> "pending", checkedInAt |-> Null]]
    /\ rowChanges = 0
    /\ \/ \E type \in PollingTypes : LoadedByPoll(type)
       \/ LoadedBySwitch
    /\ filteredAttendees = UpdateDisplay(attendees)
    /\ ImportIdle

NextRoster ==
    \/ \E h \in liveTimers : PollTick(h)
    \/ \E l \in BagToSet(loads), fetchOk \in BOOLEAN, checkinOk \in BOOLEAN :
            LoadServe(l, fetchOk, checkinOk)
    \/ \E l \in BagToSet(loads) : LoadDeliver(l)
    \/ \E id \in AllIds, ts \in Timestamps : ToggleCheckIn(id, ts)
    \/ \E i \in DOMAIN toggles, httpOk \in BOOLEAN : ToggleServe(i, httpOk)
    \/ \E i \in DOMAIN toggles : ToggleSettle(i)
    \/ SetupRealtimeSubscription
    \/ \E payload \in Payloads : RealtimeUpdate(payload)

SpecRoster == InitRoster /\ [][NextRoster]_vars

\* The initial states of SpecRoster are states of SpecManager.
NotYetLoadedCsv == ~(InitRoster /\ LoadedByPoll("csv"))
NotYetLoadedSheet == ~(InitRoster /\ LoadedByPoll("googlesheets"))
NotYetLoadedSupabase == ~(InitRoster /\ LoadedBySwitch)

(***************************************************************************)
(* Properties.                                                             *)
(***************************************************************************)
IdsOfType(type) ==
    CASE type = "csv" -> Range(CsvIds)
      [] type = "googlesheets" -> Range(SheetIds)
      [] type = "supabase" -> DbIdSet
      [] OTHER -> {}

\* The record toggle t put in the roster before its await.
OptimisticOf(t) == [t.before EXCEPT !.status = t.newStatus, !.checkedInAt = t.timestamp]

\* C1 (SpecRoster): when updateAttendee rejects, the roster after the call has
\* settled holds for that id the record from before the call, status and
\* checkedInAt alike, and every other record is as it was.  The case is the
\* one where nothing else touched the record while the call was suspended.
RollbackRestoresRecord ==
    [][\A i \in DOMAIN toggles :
          (/\ ToggleSettle(i)
           /\ ~toggles[i].resolved
           /\ toggles[i].live
           /\ attendees[toggles[i].pos] = OptimisticOf(toggles[i]))
          => attendees' = [attendees EXCEPT ![toggles[i].pos] = toggles[i].before]]_vars

\* C2 (SpecRoster): for every adapter, a status write the backend did not store
\* makes updateAttendee reject, and the settled roster does not show for that
\* id the status that was not stored.
FailedWriteIsReported ==
    [][\A i \in DOMAIN toggles :
          (ToggleSettle(i) /\ ~toggles[i].stored)
          => /\ ~toggles[i].resolved
             /\ toggles[i].live =>
                    attendees'[toggles[i].pos].status # toggles[i].newStatus]_vars

\* C3 (SpecRoster): every record of the roster is pending with checkedInAt
\* null or checked-in with checkedInAt set, after any sequence of loads with
\* the overlay merge, poll ticks, push deltas, toggles and rollbacks.
StatusMatchesTimestamp ==
    \A k \in DOMAIN attendees :
        \/ attendees[k].status = "pending" /\ attendees[k].checkedInAt = Null
        \/ attendees[k].status = "checked-in" /\ attendees[k].checkedInAt # Null

\* C4 (SpecManager): a loadData response of an adapter that a confirmed switch
\* has replaced since does not alter the roster.
StaleLoadIsIgnored ==
    [][\A l \in BagToSet(loads) :
          (LoadDeliver(l) /\ l.src.inst < currentSource.inst)
          => attendees' = attendees]_vars

\* C5 (SpecManager): no two loadData calls are in flight on the same adapter
\* object.
NoOverlappingLoads ==
    \A l \in BagToSet(loads) :
        /\ CopiesIn(l, loads) = 1
        /\ \A m \in BagToSet(loads) : m.src.inst = l.src.inst => m = l

\* C6 (SpecManager): a switchDataSource the user declines leaves the roster,
\* the filtered roster, the active adapter and the poll timer as they were and
\* starts no load.
DeclinedSwitchIsNoOp ==
    [][(\E newType \in RequestTypes : SwitchDeclined(newType))
          => UNCHANGED <<attendees, filteredAttendees, currentSource,
                         pollingInterval, liveTimers, loads>>]_vars

\* A switch was declined while a roster was loaded, a timer live and a load in
\* flight.
DeclinedSwitchSeen ==
    /\ lastEvent = Event("switch", "declined")
    /\ Len(attendees) = 2
    /\ pollingInterval \in liveTimers
    /\ loads # EmptyBag

\* C7 (SpecManager): from the confirmation of a switch until the first load of
\* the new adapter completes, the roster and the displayed roster hold no
\* record of a previous source.
NoOldRecordsWhileSwitching ==
    (\E l \in BagToSet(loads) : l.origin = "switch" /\ l.src = currentSource)
        => /\ \A k \in DOMAIN attendees :
                attendees[k].id \in IdsOfType(currentSource.type)
           /\ filteredAttendees = attendees

NoFailureEscapes ==
    /\ lastEvent # Event("switch", "rejected")
    /\ lastEvent = Event("switchDone", "caught") => attendees = <<>>

OtherClientCheckin(id, pair) ==
    /\ id \in FileIdSet
    /\ checkins[id] # pair
    /\ checkins' = [checkins EXCEPT ![id] = pair]
    /\ lastEvent' = Event("otherClient", "stored")
    /\ UNCHANGED <<clientVars, present, dbTable, rowChanges>>
    /\ UNCHANGED <<importVars, toolVars>>

InitSync == Init /\ config.type \in PollingTypes

NextSync ==
    \/ ManagerInit
    \/ \E h \in 1..(MaxSwitches + 1) : PollTick(h)
    \/ \E l \in BagToSet(loads), fetchOk \in BOOLEAN, checkinOk \in BOOLEAN :
          LoadServe(l, fetchOk, checkinOk)
    \/ \E l \in BagToSet(loads) : LoadDeliver(l)
    \/ \E id \in FileIdSet, pair \in StatusPairs : OtherClientCheckin(id, pair)

\* What loadData can settle with for the adapter of a polling source while
\* no row is removed.
Snapshots(type) ==
    {Rejected} \cup
    {LoadData([type |-> type, inst |-> 1], AllIds, c,
              [id \in DbIdSet |-> [status |-> "pending", checkedInAt |-> Null]],
              fetchOk, checkinOk) :
        c \in [FileIdSet -> StatusPairs \cup {NoEntry}],
        fetchOk \in BOOLEAN, checkinOk \in BOOLEAN}

ReadyLoads ==
    UNION {{[src |-> [type |-> type, inst |-> 1], origin |-> "poll",
             phase |-> "ready", result |-> r] : r \in Snapshots(type)} :
           type \in PollingTypes}

SpecSync ==
    /\ InitSync
    /\ [][NextSync]_vars
    /\ WF_vars(ManagerInit)
    /\ WF_vars(\E h \in 1..(MaxSwitches + 1) : PollTick(h))
    /\ SF_vars(\E l \in BagToSet(loads) : LoadServe(l, TRUE, TRUE))
    /\ \A l \in ReadyLoads : WF_vars(LoadDeliver(l))

\* The record of id in the roster carries the stored pair.
Shows(id, pair) ==
    \E k \in DOMAIN attendees :
        /\ attendees[k].id = id
        /\ attendees[k].status = pair.status
        /\ attendees[k].checkedInAt = pair.checkedInAt

\* C11 (SpecSync): under the CSV or the Google Sheets source, with the timer
\* firing and requests succeeding again and again, a status another device
\* has stored for an attendee of this source eventually shows in this page's
\* roster, unless the backend entry has been changed again in the meantime.
StoredStatusReachesOtherDevice ==
    \A id \in FileIdSet : \A pair \in StatusPairs :
        (checkins[id] = pair /\ id \in IdsOfType(config.type))
            ~> (Shows(id, pair) \/ checkins[id] # pair)

\* The page shows a check-in that another device stored.
OtherDeviceCheckinShown ==
    /\ lastEvent = Event("pollDone", "replaced")
    /\ \E id \in FileIdSet :
          /\ checkins[id].status = "checked-in"
          /\ Shows(id, checkins[id])

\* What the backend of adapter src holds for id: the entry of checkins.json
\* for the file sources, the table row for Supabase.
StoredFor(src, id) ==
    IF src.type \in PollingTypes
    THEN IF id \in FileIdSet THEN checkins[id] ELSE NoEntry
    ELSE IF id \in DbIdSet THEN dbTable[id] ELSE NoEntry

\* C12 (SpecRoster): while the backend holds a check-in for an attendee, every
\* loadData that resolves with a record of that attendee reports it as
\* checked-in.
CheckInSurvivesLoads ==
    [][\A l \in BagToSet(loads) : \A fetchOk \in BOOLEAN : \A checkinOk \in BOOLEAN :
          LoadServe(l, fetchOk, checkinOk)
          => LET result == LoadData(l.src, present, checkins, dbTable, fetchOk, checkinOk)
             IN  \A k \in DOMAIN result.data :
                    StoredFor(l.src, result.data[k].id).status = "checked-in"
                        => result.data[k].status = "checked-in"]_vars

TotalCount(att) == Len(att)
CheckedInCount(att) == Cardinality({k \in DOMAIN att : att[k].status = "checked-in"})
PendingCount(att) == TotalCount(att) - CheckedInCount(att)

\* C14 (SpecRoster): toggleCheckIn of a pending attendee raises the checked-in
\* count by one and keeps the total; toggleCheckIn of a checked-in attendee
\* lowers it by one and leaves the record pending with checkedInAt null; a
\* write the backend accepts changes no count; and after every step the
\* checked-in and the pending count add up to the total.
CountsFollowToggles ==
    [][/\ \A id \in AllIds : \A ts \in Timestamps :
            ToggleCheckIn(id, ts)
            => /\ TotalCount(attendees') = TotalCount(attendees)
               /\ IF attendees[FindIndex(attendees, id)].status = "pending"
                  THEN CheckedInCount(attendees') = CheckedInCount(attendees) + 1
                  ELSE /\ CheckedInCount(attendees') = CheckedInCount(attendees) - 1
                       /\ attendees'[FindIndex(attendees, id)] = Record(id, "pending", Null)
       /\ \A i \in DOMAIN toggles :
            (ToggleSettle(i) /\ toggles[i].resolved)
            => /\ CheckedInCount(attendees') = CheckedInCount(attendees)
               /\ TotalCount(attendees') = TotalCount(attendees)
       /\ CheckedInCount(attendees') + PendingCount(attendees') = TotalCount(attendees')
       /\ PendingCount(attendees') =
            Cardinality({k \in DOMAIN attendees' : attendees'[k].status = "pending"})]_vars

\* A stored check-in has settled with one of two attendees checked in.
CheckInCounted ==
    /\ lastEvent = Event("toggleSettle", "resolved")
    /\ TotalCount(attendees) = 2
    /\ CheckedInCount(attendees) = 1
    /\ PendingCount(attendees) = 1
    /\ \E k \in DOMAIN attendees :
          /\ attendees[k].status = "checked-in"
          /\ StoredFor(currentSource, attendees[k].id).status = "checked-in"

\* C15 (SpecManager): at most one poll timer is live, it is the one stored in
\* pollingInterval, armed by the latest init or confirmed switch, and a timer
\* is live only while the active adapter supports polling.
OnePollTimer ==
    /\ Cardinality(liveTimers) <= 1
    /\ \A h \in liveTimers :
          /\ h = pollingInterval
          /\ h = switches + 1
          /\ currentSource # NoSource
          /\ SupportsPolling(currentSource)
    /\ (currentSource.type = "supabase") => liveTimers = {}

\* After a confirmed switch between the polling sources the timer of the
\* switch is live and the timer of init is not.
TimerRearmedBySwitch ==
    /\ switches = 1
    /\ liveTimers = {2}
    /\ currentSource.inst = 2
    /\ currentSource.type \in PollingTypes

(***************************************************************************)
(* The manager with the Supabase subscription: init, confirmed switches,   *)
(* loads, and notifications delivered to the callbacks of the channels     *)
(* that were subscribed.  No code removes a channel on a switch.           *)
(***************************************************************************)
NextPush ==
    \/ ManagerInit
    \/ \E newType \in RequestTypes, settings \in Settings :
          SwitchConfirmed(newType, settings)
    \/ \E h \in liveTimers : PollTick(h)
    \/ \E l \in BagToSet(loads), fetchOk \in BOOLEAN, checkinOk \in BOOLEAN :
          LoadServe(l, fetchOk, checkinOk)
    \/ \E l \in BagToSet(loads) : LoadDeliver(l)
    \/ SetupRealtimeSubscription
    \/ \E payload \in Payloads : RealtimeUpdate(payload)

SpecPush == Init /\ [][NextPush]_vars

\* C16 (SpecPush): once a confirmed switch has replaced the adapter that
\* subscribed and the initial load of the switch is done, a notification
\* delivered through the old subscription does not alter the roster.
OldSubscriptionIsSilent ==
    [][\A payload \in Payloads :
          (/\ RealtimeUpdate(payload)
           /\ currentSource.inst \notin subscribed
           /\ \A l \in BagToSet(loads) : ~(l.origin = "switch" /\ l.src = currentSource))
          => attendees' = attendees]_vars

\* C17 (SpecManager): when init() has run, a loadData on the constructed
\* adapter has been performed.
InitLoadsRoster ==
    [][ManagerInit => \E l \in BagToSet(loads') : l.src = currentSource']_vars

-----------------------------------------------------------------------------
\* GoogleSheetsIntegration.syncFromGoogleSheet: the fallback chain.

\* EventCheckinConfig.googleSheets.fallbackMethods
fallbackMethods == <<"direct", "proxy", "manual">>

\* What a syncMethod_<method>() promise does: it rejects, it resolves with
\* the parsed rows, or (the file picker of syncMethod_manual, when the user
\* dismisses it) it never settles.
Threw == [kind |-> "threw", rows |-> <<>>]
Pending == [kind |-> "pending", rows |-> <<>>]
Parsed(rows) == [kind |-> "data", rows |-> rows]
FetchOutcomes == {Threw, Parsed(<<>>), Parsed(<<"r1">>), Parsed(<<"r1", "r2">>)}
OutcomesOf(method) ==
    IF method = "manual" THEN FetchOutcomes \cup {Pending} ELSE FetchOutcomes
SyncOutcomes ==
    {o \in [Range(fallbackMethods) -> FetchOutcomes \cup {Pending}] :
        \A m \in Range(fallbackMethods) : o[m] \in OutcomesOf(m)}

\* A loop that returned whatever a method resolved with, empty or not.
WinsWhenResolved(data) == data.kind = "data"

\* if (data && data.length > 0)
Wins(data) == data.kind = "data" /\ Len(data.rows) > 0

\* The call enters the loop and awaits the first method.
SyncFromGoogleSheet(outcomes) ==
    /\ sync.phase # "running"
    /\ sync' = [phase |-> "running", outcomes |-> outcomes,
                tried |-> <<fallbackMethods[1]>>, result |-> <<>>]
    /\ UNCHANGED <<clientVars, backendVars, raw, parsed, toolVars, lastEvent>>

\* The awaited method settles: its rows are returned, or the loop goes on to
\* the next method, or, after the last one, the call throws.
SyncMethodSettles ==
    /\ sync.phase = "running"
    /\ LET n == Len(sync.tried)
           data == sync.outcomes[sync.tried[n]]
       IN  /\ data.kind # "pending"
           /\ sync' =
                IF Wins(data)
                THEN [sync EXCEPT !.phase = "returned", !.result = data.rows]
                ELSE IF n < Len(fallbackMethods)
                THEN [sync EXCEPT !.tried = Append(@, fallbackMethods[n + 1])]
                ELSE [sync EXCEPT !.phase = "failed"]
    /\ UNCHANGED <<clientVars, backendVars, raw, parsed, toolVars, lastEvent>>

NextSheetSync ==
    \/ \E outcomes \in SyncOutcomes : SyncFromGoogleSheet(outcomes)
    \/ SyncMethodSettles

SpecSheetSync == Init /\ [][NextSheetSync]_vars

MethodFailed(data) == data.kind = "threw" \/ (data.kind = "data" /\ data.rows = <<>>)

\* C18: the methods are tried in the order direct, proxy, manual; a method
\* is tried only after every earlier one threw or returned no rows; the call
\* returns the rows of the last method tried, which are not empty, and tries
\* nothing after it; and a call in which all three methods failed ends in an
\* error.
SyncFallbackOrder ==
    sync.phase # "idle" =>
        /\ Len(sync.tried) \in 1..Len(fallbackMethods)
        /\ \A i \in 1..Len(sync.tried) :
              /\ sync.tried[i] = fallbackMethods[i]
              /\ \A j \in 1..(i - 1) : MethodFailed(sync.outcomes[fallbackMethods[j]])
        /\ sync.phase = "returned" =>
              /\ sync.result = sync.outcomes[sync.tried[Len(sync.tried)]].rows
              /\ sync.result # <<>>
        /\ sync.phase = "failed" =>
              \A m \in Range(fallbackMethods) : MethodFailed(sync.outcomes[m])
        /\ (\A m \in Range(fallbackMethods) : MethodFailed(sync.outcomes[m])) =>
              sync.phase \in {"running", "failed"}

\* The manual upload supplied the roster after direct and proxy had failed.
ManualWonAfterFallbacks ==
    /\ sync.phase = "returned"
    /\ sync.tried = fallbackMethods
    /\ sync.outcomes["direct"] = Threw
    /\ sync.outcomes["proxy"] = Parsed(<<>>)

-----------------------------------------------------------------------------
\* Importers: from a raw row of cells to a roster record.

\* One data row: table number, group, full name, ticket type, e-mail, each
\* cell empty or filled; and the blank line, a single empty cell.
RawRows ==
    {<<t, g, n, k, e>> : t \in {"", "T1"}, g \in {"", "G1"}, n \in {"", "Jane"},
                         k \in {"", "VIP"}, e \in {"", "j@x"}}
        \cup {<<"">>}

\* (values[i] || ''), positions counted from 1
Cell(values, i) == IF i <= Len(values) THEN values[i] ELSE ""

\* a || b on strings
Or(a, b) == IF a # "" THEN a ELSE b

Keep(rec) == [kept |-> TRUE, rec |-> rec]
Drop == [kept |-> FALSE, rec |-> NoAttendee]

\* GoogleSheetsIntegration.normalizeAttendee
NormalizeAttendee(values) ==
    LET ticketType == Cell(values, 4)
        groupName == IF Cell(values, 2) = "" /\ ticketType # ""
                     THEN ticketType ELSE Cell(values, 2)
        tableNumber == IF Cell(values, 1) = "" THEN "General" ELSE Cell(values, 1)
        attendee == [tableNumber |-> tableNumber, groupName |-> groupName,
                     attendeeName |-> Cell(values, 3), ticketType |-> ticketType,
                     status |-> "pending"]
    IN  IF tableNumber # "" \/ groupName # "" \/ attendee.attendeeName # ""
        THEN Keep(attendee) ELSE Drop

\* GoogleSheetsIntegration.parseSheetRows, for one data row
ParseSheetRows(row) ==
    IF Cell(row, 1) # "" \/ Cell(row, 2) # "" \/ Cell(row, 3) # ""
    THEN NormalizeAttendee(row) ELSE Drop

\* line.trim() is empty: the cells of a line are joined by commas
BlankLine(row) == Len(row) <= 1 /\ Cell(row, 1) = ""

\* GoogleSheetsIntegration.parseCsvData, for one data row: through the XLSX
\* library when it is loaded and reads the text, otherwise line by line.
ParseCsvData(row, xlsx) ==
    IF xlsx THEN ParseSheetRows(row)
    ELSE IF BlankLine(row) THEN Drop
    ELSE NormalizeAttendee(row)

\* processCsvFile of the upload endpoint, for one row
ProcessCsvFile(data) ==
    IF \A i \in 1..Len(data) : data[i] = "" THEN Drop
    ELSE LET ticketType == Cell(data, 4)
             groupName == IF ticketType # "" /\ Cell(data, 2) = ""
                          THEN ticketType ELSE Cell(data, 2)
             tableNumber == IF Cell(data, 1) = "" THEN "General" ELSE Cell(data, 1)
             attendee == [tableNumber |-> tableNumber, groupName |-> groupName,
                          attendeeName |-> Cell(data, 3), ticketType |-> ticketType,
                          status |-> "pending"]
         IN  IF attendee.attendeeName # "" \/ groupName # "" \/ tableNumber # ""
             THEN Keep(attendee) ELSE Drop

\* CsvDataSource.normalizeAttendeeData, for one stored record
CsvNormalizeAttendeeData(attendee) ==
    [tableNumber |-> Or(attendee.tableNumber, "General"),
     groupName |-> attendee.groupName,
     attendeeName |-> attendee.attendeeName,
     ticketType |-> attendee.ticketType,
     status |-> Or(attendee.status, "pending")]

\* GoogleSheetsDataSource.parseCsvData keeps a line with at least three
\* non-empty values.
SheetParseKeeps(values) ==
    Cardinality({i \in 1..Len(values) : values[i] # ""}) >= 3

\* GoogleSheetsDataSource.normalizeAttendeeData, for one row
SheetNormalizeAttendeeData(row) ==
    LET tableNumber == Or(Cell(row, 1), "General")
        groupName == Cell(row, 2)
        fullName == Cell(row, 3)
        ticketType == Cell(row, 4)
        attendee == [tableNumber |-> tableNumber,
                     groupName |-> Or(groupName, Or(ticketType, "General")),
                     attendeeName |-> fullName, ticketType |-> ticketType,
                     status |-> "pending"]
    IN  IF attendee.attendeeName # "" THEN Keep(attendee) ELSE Drop

Imported(by, out) == [by |-> by, kept |-> out.kept, rec |-> out.rec]

\* A sync method or the file picker hands the text to parseCsvData.
ImportBySync(row, xlsx) ==
    /\ raw' = row
    /\ parsed' = Imported(IF xlsx THEN "parseSheetRows" ELSE "parseCsvData",
                          ParseCsvData(row, xlsx))
    /\ UNCHANGED <<clientVars, backendVars, sync, toolVars, lastEvent>>

\* The file is uploaded, stored by processCsvFile and read back by the CSV
\* adapter.
ImportByUpload(row) ==
    /\ raw' = row
    /\ parsed' = LET out == ProcessCsvFile(row)
                 IN  Imported("processCsvFile",
                              IF out.kept THEN Keep(CsvNormalizeAttendeeData(out.rec))
                              ELSE Drop)
    /\ UNCHANGED <<clientVars, backendVars, sync, toolVars, lastEvent>>

\* The Google Sheets adapter loads the published sheet.
ImportBySheetAdapter(row) ==
    /\ raw' = row
    /\ parsed' = Imported("GoogleSheetsDataSource",
                          IF SheetParseKeeps(row)
                          THEN SheetNormalizeAttendeeData(row) ELSE Drop)
    /\ UNCHANGED <<clientVars, backendVars, sync, toolVars, lastEvent>>

NextImport ==
    \/ \E row \in RawRows, xlsx \in BOOLEAN : ImportBySync(row, xlsx)
    \/ \E row \in RawRows : ImportByUpload(row)
    \/ \E row \in RawRows : ImportBySheetAdapter(row)

SpecImport == Init /\ [][NextImport]_vars

\* C19: a raw row whose table number, group and attendee name are all empty
\* yields no record, whichever importer read it.
RowWithoutKeysIsDropped ==
    (Cell(raw, 1) = "" /\ Cell(raw, 2) = "" /\ Cell(raw, 3) = "") => ~parsed.kept

\* The record the fallback rules prescribe for a row.
Expected(row) ==
    [tableNumber |-> Or(Cell(row, 1), "General"),
     groupName |-> Or(Cell(row, 2), Cell(row, 4)),
     attendeeName |-> Cell(row, 3),
     ticketType |-> Cell(row, 4),
     status |-> "pending"]

\* C20: every record an importer produces takes its fields from positions 0
\* to 3 of the row, with the ticket type standing in for an empty group and
\* "General" for an empty table number, and is pending; so all importers
\* produce the same record for the same row.
NormalizersAgree ==
    parsed.kept => parsed.rec = Expected(raw)

-----------------------------------------------------------------------------
\* The ids the adapters give to the rows of a snapshot.  The strings
\* `csv_<n>` and `gsheet_<name>_<n>` are written <<"csv", n>> and
\* <<"gsheet", name, n>>; <<>> is a record without an id.

NoId == <<>>
StoredIds == {NoId} \cup {<<"csv", n>> : n \in 0..(MaxRows + 1)}
SheetNames == {"", "Ann", "ann", "Bo B"}

SeqsUpTo(S, n) == UNION {[1..k -> S] : k \in 0..n}

\* attendees.json as the endpoint returns it: records with or without an id,
\* the ids that are there all different.
StoredSnapshots ==
    {rows \in SeqsUpTo({[id |-> i, name |-> "Ann"] : i \in StoredIds}, MaxRows) :
        \A i, j \in DOMAIN rows :
            (i # j /\ rows[i].id # NoId) => rows[i].id # rows[j].id}

\* The data lines of a published sheet, by the full name in column 2.
SheetSnapshots ==
    SeqsUpTo({[id |-> NoId, name |-> n] : n \in SheetNames}, MaxRows)

\* The lines of an uploaded CSV file: TRUE for a line with a filled cell.
UploadedFiles == SeqsUpTo(BOOLEAN, MaxRows)

\* processCsvFile: 'csv_' . $rowIndex, where $rowIndex is 1 before the first
\* line and is incremented for every line read, a skipped one included.
UploadedRows(lines) ==
    LET numbered == [k \in DOMAIN lines |-> [k |-> k, filled |-> lines[k]]]
        keptLines == SelectSeq(numbered, LAMBDA l : l.filled)
    IN  [j \in DOMAIN keptLines |-> [id |-> <<"csv", keptLines[j].k + 1>>, name |-> "Ann"]]

\* CSVDataSource.normalizeAttendeeData: attendee.id || `csv_${index}`
CsvId(attendee, index) ==
    IF attendee.id # NoId THEN attendee.id ELSE <<"csv", index>>

\* fullName.replace(/\s+/g, '_').toLowerCase()
Slug(fullName) ==
    CASE fullName = "Ann" -> "ann"
      [] fullName = "Bo B" -> "bo_b"
      [] OTHER -> fullName

\* An id made afresh by every load.
SheetIdPerLoad(fullName, index) == <<"gsheet", Slug(fullName), index, idRuns.phase>>

\* GoogleSheetsDataSource.normalizeAttendeeData: the generated id
SheetId(fullName, index) ==
    IF fullName # "" THEN <<"gsheet", Slug(fullName), index>> ELSE <<"gsheet", index>>

\* The (id, name) pairs of the roster an adapter returns for a snapshot;
\* the index is the 0-based position in the data array.
CsvRoster(snapshot) ==
    [k \in DOMAIN snapshot |->
        [id |-> CsvId(snapshot[k], k - 1), name |-> snapshot[k].name]]

SheetRoster(snapshot) ==
    SelectSeq([k \in DOMAIN snapshot |->
                  [id |-> SheetId(snapshot[k].name, k - 1), name |-> snapshot[k].name]],
              LAMBDA attendee : attendee.name # "")

RosterOf(src, snapshot) ==
    IF src = "csv" THEN CsvRoster(snapshot) ELSE SheetRoster(snapshot)

Snapshot(src, snapshot) ==
    [phase |-> "stored", src |-> src, snapshot |-> snapshot, first |-> <<>>,
     second |-> <<>>]

\* attendees.json is put in the data directory (restored from a backup, or
\* served by another pollUrl).
StoreAttendees(rows) ==
    /\ idRuns' = Snapshot("csv", rows)
    /\ UNCHANGED <<clientVars, backendVars, importVars, saved, email, delta,
                   requests, lastEvent>>

\* handleUpload: the uploaded file is processed and saved as attendees.json.
UploadCsv(lines) ==
    /\ idRuns' = Snapshot("csv", UploadedRows(lines))
    /\ UNCHANGED <<clientVars, backendVars, importVars, saved, email, delta,
                   requests, lastEvent>>

\* The owner publishes a sheet.
PublishSheet(rows) ==
    /\ idRuns' = Snapshot("googlesheets", rows)
    /\ UNCHANGED <<clientVars, backendVars, importVars, saved, email, delta,
                   requests, lastEvent>>

\* loadData() normalizes the snapshot: the first load and a reload.
LoadSnapshot ==
    /\ idRuns.phase \in {"stored", "once"}
    /\ idRuns' =
         IF idRuns.phase = "stored"
         THEN [idRuns EXCEPT !.phase = "once",
                             !.first = RosterOf(idRuns.src, idRuns.snapshot)]
         ELSE [idRuns EXCEPT !.phase = "twice",
                             !.second = RosterOf(idRuns.src, idRuns.snapshot)]
    /\ UNCHANGED <<clientVars, backendVars, importVars, saved, email, delta,
                   requests, lastEvent>>

NextIds ==
    \/ \E rows \in StoredSnapshots : StoreAttendees(rows)
    \/ \E lines \in UploadedFiles : UploadCsv(lines)
    \/ \E rows \in SheetSnapshots : PublishSheet(rows)
    \/ LoadSnapshot

SpecIds == Init /\ [][NextIds]_vars

IdsUniqueInSnapshot ==
    \A i, j \in DOMAIN idRuns.first :
        i # j => idRuns.first[i].id # idRuns.first[j].id

-----------------------------------------------------------------------------
\* saveConfig and loadConfig: the data source settings across a page reload.

\* The data source fields of the admin form that pass saveSettings' checks.
SettingsForms ==
    {f \in [type : SourceTypes, url : {"", "https://my.supabase.co"},
            anonKey : {"", "my-key"}, sheetUrl : {"", "https://docs.google.com/s"},
            pollInterval : {DefaultPollInterval, 2 * DefaultPollInterval}] :
        /\ f.type = "supabase" => (f.url # "" /\ f.anonKey # "")
        /\ f.type = "googlesheets" => f.sheetUrl # ""}

\* Where the page runs: window.location.hostname and the ENV_ globals.
Environments ==
    [local : {TRUE}, envUrl : {""}, envKey : {""}] \cup
    [local : {FALSE}, envUrl : {"", "https://env.supabase.co"},
     envKey : {"", "env-key"}]

\* loadConfig(): the stored object replaces dataSource, then the Supabase url
\* and key are assigned from the environment.
LoadConfig(stored, env) ==
    [stored EXCEPT
        !.url = IF env.local THEN "https://efcgzxjwystresjbcezc.supabase.co"
                ELSE env.envUrl,
        !.anonKey = IF env.local THEN "YOUR_DEV_API_KEY_HERE" ELSE env.envKey]

\* saveSettings() up to saveConfig(newConfig): localStorage.setItem and
\* Object.assign on the configuration.
SaveConfig(form) ==
    /\ saved' = [phase |-> "saved", stored |-> form, effective |-> form]
    /\ UNCHANGED <<clientVars, backendVars, importVars, idRuns, email, delta,
                   requests, lastEvent>>

\* The page is loaded again and runs loadConfig().
ReloadPage(env) ==
    /\ saved.phase # "idle"
    /\ saved' = [saved EXCEPT !.phase = "loaded",
                              !.effective = LoadConfig(saved.stored, env)]
    /\ UNCHANGED <<clientVars, backendVars, importVars, idRuns, email, delta,
                   requests, lastEvent>>

NextConfig ==
    \/ \E form \in SettingsForms : SaveConfig(form)
    \/ \E env \in Environments : ReloadPage(env)

SpecConfig == Init /\ [][NextConfig]_vars

\* C23: the data source settings in effect after a reload are the ones that
\* were saved: the source type and, for the selected source, the Supabase
\* project URL and API key, the sheet URL and the poll interval.
SavedSettingsSurviveReload ==
    saved.phase = "loaded" =>
        /\ saved.effective.type = saved.stored.type
        /\ saved.stored.type = "supabase" =>
              /\ saved.effective.url = saved.stored.url
              /\ saved.effective.anonKey = saved.stored.anonKey
        /\ saved.stored.type = "googlesheets" =>
              saved.effective.sheetUrl = saved.stored.sheetUrl
        /\ saved.stored.type \in PollingTypes =>
              saved.effective.pollInterval = saved.stored.pollInterval

-----------------------------------------------------------------------------
\* EmailValidator.  A string is the sequence of its characters.

MaxEmailLength == 254

Letters == {"a", "s", "p", "c", "o"}
LocalPartChars == Letters \cup {"1", ".", "_", "+", "-"}      \* [a-zA-Z0-9._+-]
DomainChars == Letters \cup {"1", ".", "-"}                   \* [a-zA-Z0-9.-]
EmailChars == LocalPartChars \cup {"@", "<", " "}

\* Addresses <local>@a.co with a local part of up to three characters, the
\* shortest of them with blanks around, and every string of up to two
\* characters.
Addresses ==
    {local \o <<"@", "a", ".", "c", "o">> :
        local \in SeqsUpTo({"a", "s", "p", "_", "-", "."}, 3)}
EmailInputs ==
    Addresses
    \cup {<<" ">> \o str \o <<" ">> : str \in {a \in Addresses : Len(a) <= 6}}
    \cup SeqsUpTo(EmailChars, 2)

\* String.prototype.trim
Trim(str) ==
    LET solid == {i \in DOMAIN str : str[i] # " "}
    IN  IF solid = {} THEN <<>>
        ELSE SubSeq(str, CHOOSE i \in solid : \A j \in solid : i <= j,
                         CHOOSE i \in solid : \A j \in solid : j <= i)

\* String.prototype.includes
Includes(str, part) ==
    \E i \in 1..(Len(str) - Len(part) + 1) : SubSeq(str, i, i + Len(part) - 1) = part

\* DANGEROUS_CHARS.test: of its alternatives only `<` can be written with
\* EmailChars.
DangerousChars(str) == Includes(str, <<"<">>)

\* SQL_INJECTION_PATTERNS.test: of its alternatives `--` and `sp_` can be
\* written with EmailChars.
SqlInjectionPatterns(str) ==
    Includes(str, <<"-", "-">>) \/ Includes(str, <<"s", "p", "_">>)

\* EMAIL_REGEX.test: ^[a-zA-Z0-9._+-]+@[a-zA-Z0-9.-]+\.[a-zA-Z]{2,}$
EmailRegex(str) ==
    \E at \in DOMAIN str, dot \in DOMAIN str :
        /\ 1 < at /\ at + 1 < dot /\ dot + 2 <= Len(str)
        /\ str[at] = "@" /\ str[dot] = "."
        /\ \A i \in 1..(at - 1) : str[i] \in LocalPartChars
        /\ \A i \in (at + 1)..(dot - 1) : str[i] \in DomainChars
        /\ \A i \in (dot + 1)..Len(str) : str[i] \in Letters

\* EmailValidator.isValid
IsValid(str) ==
    LET trimmed == Trim(str)
        at == {i \in DOMAIN trimmed : trimmed[i] = "@"}
    IN  /\ str # <<>>
        /\ trimmed # <<>>
        /\ ~DangerousChars(trimmed)
        /\ ~SqlInjectionPatterns(trimmed)
        /\ EmailRegex(trimmed)
        /\ Cardinality(at) = 1
        /\ \A i \in at : 1 < i /\ i < Len(trimmed)
        /\ \E i \in DOMAIN trimmed, j \in at : i > j /\ trimmed[i] = "."
        /\ ~Includes(trimmed, <<".", ".">>)
        /\ Len(trimmed) <= MaxEmailLength

\* EmailValidator.validate(email).valid
Validate(str) ==
    /\ str # <<>>
    /\ Trim(str) # <<>>
    /\ ~DangerousChars(str)
    /\ ~SqlInjectionPatterns(str)
    /\ IsValid(str)

\* An address is handed to isValid() and to validate().
ValidateEmail(str) ==
    /\ email' = [phase |-> "checked", input |-> str, isValid |-> IsValid(str),
                 valid |-> Validate(str)]
    /\ UNCHANGED <<clientVars, backendVars, importVars, idRuns, saved, delta,
                   requests, lastEvent>>

NextEmail == \E str \in EmailInputs : ValidateEmail(str)

SpecEmail == Init /\ [][NextEmail]_vars

\* The documented form of an address: a local part of letters, digits, dots,
\* hyphens, underscores and plus signs, one @, a domain with a dot and a
\* top-level domain of 2 to 6 letters, no two dots in a row, at most 254
\* characters.
DocumentedForm(str) ==
    /\ Len(str) <= MaxEmailLength
    /\ ~Includes(str, <<".", ".">>)
    /\ \E at \in DOMAIN str, dot \in DOMAIN str :
        /\ 1 < at /\ at + 1 < dot
        /\ Len(str) - dot \in 2..6
        /\ str[at] = "@" /\ str[dot] = "."
        /\ \A i \in 1..(at - 1) : str[i] \in LocalPartChars
        /\ \A i \in (at + 1)..(dot - 1) : str[i] \in DomainChars
        /\ \A i \in (dot + 1)..Len(str) : str[i] \in Letters

\* C24: isValid accepts every address of the documented form, and validate
\* gives the same verdict as isValid.
DocumentedAddressesAccepted ==
    email.phase = "checked" =>
        /\ DocumentedForm(email.input) => email.isValid
        /\ email.valid = email.isValid

-----------------------------------------------------------------------------
\* Polls and toggles when every request succeeds.

\* A page on a polling source whose polls are issued while no toggle is
\* suspended, and whose backend answers every request.
NextStalePoll ==
    \/ \E h \in liveTimers : toggles = <<>> /\ PollTick(h)
    \/ \E l \in BagToSet(loads) : LoadServe(l, TRUE, TRUE)
    \/ \E l \in BagToSet(loads) : LoadDeliver(l)
    \/ \E id \in AllIds, ts \in Timestamps : ToggleCheckIn(id, ts)
    \/ \E i \in DOMAIN toggles : ToggleServe(i, TRUE)
    \/ \E i \in DOMAIN toggles : ToggleSettle(i)

\* The page has loaded the roster of a polled source.
InitStalePoll == InitRoster /\ config.type \in PollingTypes

SpecStalePoll == InitStalePoll /\ [][NextStalePoll]_vars

\* C25: a poll response that arrives when the roster shows, for an attendee,
\* the status the backend has accepted does not change that status.
PollKeepsAcceptedChange ==
    [][\A l \in BagToSet(loads) :
          LoadDeliver(l) =>
            \A k \in DOMAIN attendees :
                (/\ StoredFor(currentSource, attendees[k].id) # NoEntry
                 /\ StoredFor(currentSource, attendees[k].id).status = attendees[k].status
                 /\ FindIndex(attendees', attendees[k].id) # 0)
                => attendees'[FindIndex(attendees', attendees[k].id)].status
                     = attendees[k].status]_vars

\* Toggles alone on the Supabase source, with every outcome of the write.
NextDoubleToggle ==
    \/ \E id \in AllIds, ts \in Timestamps : ToggleCheckIn(id, ts)
    \/ \E i \in DOMAIN toggles, httpOk \in BOOLEAN : ToggleServe(i, httpOk)
    \/ \E i \in DOMAIN toggles : ToggleSettle(i)

\* The page has loaded the roster of the database source.
InitDoubleToggle == InitRoster /\ config.type = "supabase"

SpecDoubleToggle == InitDoubleToggle /\ [][NextDoubleToggle]_vars

\* The status and time the backend accepted last for id; the loaded one when
\* it has accepted none.
Accepted(src, id) ==
    IF StoredFor(src, id) = NoEntry
    THEN [status |-> "pending", checkedInAt |-> Null]
    ELSE StoredFor(src, id)

\* C26: when the last of several overlapping toggles of one attendee has
\* settled, the roster shows for that attendee the status and time the
\* backend accepted last.
OverlappingTogglesConverge ==
    [][\A i \in DOMAIN toggles :
          (/\ ToggleSettle(i)
           /\ toggles[i].rival
           /\ \A k \in DOMAIN toggles : k # i => toggles[k].id # toggles[i].id)
          => LET rec == attendees'[toggles[i].pos]
             IN  [status |-> rec.status, checkedInAt |-> rec.checkedInAt]
                   = Accepted(currentSource, toggles[i].id)]_vars

-----------------------------------------------------------------------------
\* AdminPanel.saveSettings

\* saveConfig(newConfig): Object.assign replaces dataSource by the form's.
SavedConfig(form) ==
    [type |-> form.type, pollInterval |-> [t \in PollingTypes |-> form.pollInterval]]

\* newConfig.dataSource.settings[newConfig.dataSource.type]
FormSettings(form) == [given |-> TRUE, pollInterval |-> form.pollInterval]

\* What `await switchDataSource(...)` gives saveSettings: nothing when the
\* adapter already has the type, false when declined, true otherwise.
SwitchedValues == {"undefined", "false", "true"}

\* if (!switched) alert('Failed to switch data source ...'); return;
\* otherwise the success message and the reload.
SaveOutcome(switched) ==
    IF switched \in {"undefined", "false"} THEN "failed" ELSE "saved"

\* saveSettings() with the type the adapter already has.
SaveSettingsSameType(form) ==
    /\ initialized
    /\ currentSource # NoSource /\ GetType(currentSource) = form.type
    /\ config' = SavedConfig(form)
    /\ lastEvent' = Event("saveSettings", SaveOutcome("undefined"))
    /\ UNCHANGED <<attendees, filteredAttendees, currentSource, pollingInterval,
                   liveTimers, initialized, switches, loads, toggles, subscribed,
                   backendVars>>
    /\ UNCHANGED <<importVars, toolVars>>

\* saveSettings() with another type, the confirm() dialog answered with Cancel.
SaveSettingsDeclined(form) ==
    /\ initialized
    /\ ~(currentSource # NoSource /\ GetType(currentSource) = form.type)
    /\ config' = SavedConfig(form)
    /\ lastEvent' = Event("saveSettings", SaveOutcome("false"))
    /\ UNCHANGED <<attendees, filteredAttendees, currentSource, pollingInterval,
                   liveTimers, initialized, switches, loads, toggles, subscribed,
                   backendVars>>
    /\ UNCHANGED <<importVars, toolVars>>

\* saveSettings() with another type, confirmed: saveConfig, then
\* switchDataSource up to its await.
SaveSettingsConfirmed(form) ==
    SwitchAfterConfirm(SavedConfig(form), form.type, FormSettings(form))

NextAdmin ==
    \/ ManagerInit
    \/ \E form \in SettingsForms : SaveSettingsSameType(form)
    \/ \E form \in SettingsForms : SaveSettingsDeclined(form)
    \/ \E form \in SettingsForms :
          switches < MaxManagerSwitches /\ SaveSettingsConfirmed(form)
    \/ \E newType \in RequestTypes : SwitchSameType(newType)
    \/ \E newType \in RequestTypes : SwitchDeclined(newType)
    \/ \E newType \in RequestTypes, settings \in Settings :
          switches < MaxManagerSwitches /\ SwitchConfirmed(newType, settings)
    \/ \E h \in liveTimers : PollTick(h)
    \/ \E l \in BagToSet(loads), fetchOk \in BOOLEAN, checkinOk \in BOOLEAN :
          LoadServe(l, fetchOk, checkinOk)
    \/ \E l \in BagToSet(loads) : LoadDeliver(l)

SpecAdmin == Init /\ [][NextAdmin]_vars

\* C27: whenever the manager is initialized and no load is in flight, the
\* type of the active adapter is the configured dataSource.type.
AdapterMatchesConfig ==
    (initialized /\ loads = EmptyBag /\ currentSource # NoSource)
        => GetType(currentSource) = config.type

\* C28: saving settings whose source type is the active one stores them,
\* leaves roster, adapter and timer alone and ends with the success message.
SameTypeSaveSucceeds ==
    [][\A form \in SettingsForms :
          SaveSettingsSameType(form) =>
            /\ config' = SavedConfig(form)
            /\ UNCHANGED <<attendees, filteredAttendees, currentSource, liveTimers>>
            /\ lastEvent' = Event("saveSettings", "saved")]_vars

(***************************************************************************)
(* One table row as the Supabase adapter loads it and as a postgres_changes*)
(* notification delivers it.                                               *)
(***************************************************************************)
\* Rows of the attendees table; a null column is "" (status) or Null.
DbRows ==
    {[id |-> id, table_number |-> "T1", group_name |-> g, attendee_name |-> "Jane",
      ticket_type |-> "VIP", email |-> e, additional_info |-> a, meal_choice |-> m,
      status |-> p.status, checked_in_at |-> p.checkedInAt, row_index |-> 1] :
        id \in DbIdSet, g \in {"", "G1"}, e \in {"", "j@x"}, a \in {"", "Vegan"},
        m \in {"", "Fish"}, p \in StatusPairs \cup {[status |-> "", checkedInAt |-> Null]}}

RealtimePayloads == [eventType : EventTypes, new : DbRows]

\* SupabaseDataSource.normalizeAttendeeData, for one row
SupabaseNormalizeAttendeeData(row) ==
    [id |-> row.id,
     tableNumber |-> row.table_number,
     groupName |-> row.group_name,
     attendeeName |-> row.attendee_name,
     ticketType |-> row.ticket_type,
     email |-> row.email,
     additionalInfo |-> Or(row.additional_info, row.meal_choice),
     status |-> Or(row.status, "pending"),
     checkedInAt |-> row.checked_in_at,
     rowIndex |-> row.row_index]

\* The object literal handleRealtimeUpdate stores for newRecord.
RealtimeRecord(newRecord) ==
    [id |-> newRecord.id,
     tableNumber |-> newRecord.table_number,
     groupName |-> newRecord.group_name,
     attendeeName |-> newRecord.attendee_name,
     ticketType |-> newRecord.ticket_type,
     status |-> Or(newRecord.status, "pending"),
     checkedInAt |-> newRecord.checked_in_at,
     rowIndex |-> newRecord.row_index]

\* SupabaseDataSource.loadData() returns the record of a row to the roster.
LoadRow(row) ==
    /\ delta.phase = "idle"
    /\ delta' = [phase |-> "loaded", row |-> row,
                 rec |-> SupabaseNormalizeAttendeeData(row)]
    /\ UNCHANGED <<clientVars, backendVars, importVars, idRuns, saved, email,
                   requests, lastEvent>>

\* handleRealtimeUpdate(payload) finds the record of the row in the roster.
PushRow(payload) ==
    /\ delta.phase \in {"loaded", "pushed"}
    /\ payload.eventType = "UPDATE"
    /\ payload.new.id = delta.rec.id
    /\ delta' = [phase |-> "pushed", row |-> payload.new,
                 rec |-> RealtimeRecord(payload.new)]
    /\ UNCHANGED <<clientVars, backendVars, importVars, idRuns, saved, email,
                   requests, lastEvent>>

\* handleRealtimeUpdate(payload) for another event type or an unknown id.
PushIgnored(payload) ==
    /\ delta.phase \in {"loaded", "pushed"}
    /\ ~(payload.eventType = "UPDATE" /\ payload.new.id = delta.rec.id)
    /\ delta' = [delta EXCEPT !.phase = "loaded"]
    /\ UNCHANGED <<clientVars, backendVars, importVars, idRuns, saved, email,
                   requests, lastEvent>>

NextDelta ==
    \/ \E row \in DbRows : LoadRow(row)
    \/ \E payload \in RealtimePayloads : PushRow(payload)
    \/ \E payload \in RealtimePayloads : PushIgnored(payload)

SpecDelta == Init /\ [][NextDelta]_vars

\* C29: the record a push update puts in the roster is, field for field, the
\* record loadData's normalization produces for the same table row.
PushedRecordEqualsLoaded ==
    delta.phase = "pushed" => delta.rec = SupabaseNormalizeAttendeeData(delta.row)

(***************************************************************************)
(* csv-handler.php?action=checkin: each request is its own PHP process,    *)
(* which reads checkins.json, changes its copy and writes the file back.   *)
(***************************************************************************)
CheckinInputs == [attendeeId : FileIdSet, pair : StatusPairs]

\* The entry handleCheckin puts in its copy of the map.
CheckinUpdate(map, input) == [map EXCEPT ![input.attendeeId] = input.pair]

\* handleGetCheckins: the map as checkins.json holds it.
HandleGetCheckins == checkins

\* A POST with attendeeId and status arrives.
ReceiveCheckin(input) ==
    /\ Len(requests) < MaxRequests
    /\ requests' = Append(requests, [input |-> input, phase |-> "received",
                                     checkins |-> <<>>, success |-> FALSE])
    /\ UNCHANGED <<clientVars, backendVars, importVars, idRuns, saved, email,
                   delta, lastEvent>>

\* handleCheckin reads checkins.json (file_get_contents, json_decode).
ReadCheckins(i) ==
    /\ i \in DOMAIN requests
    /\ requests[i].phase = "received"
    /\ requests' = [requests EXCEPT ![i].phase = "read", ![i].checkins = checkins]
    /\ UNCHANGED <<clientVars, backendVars, importVars, idRuns, saved, email,
                   delta, lastEvent>>

\* handleCheckin sets its entry and writes the whole map (file_put_contents);
\* a failed write throws.
WriteCheckins(i, written) ==
    /\ i \in DOMAIN requests
    /\ requests[i].phase = "read"
    /\ checkins' = IF written
                   THEN CheckinUpdate(requests[i].checkins, requests[i].input)
                   ELSE checkins
    /\ requests' = [requests EXCEPT ![i].phase = "done", ![i].success = written]
    /\ UNCHANGED <<clientVars, present, dbTable, rowChanges, importVars, idRuns,
                   saved, email, delta, lastEvent>>

NextEndpoint ==
    \/ \E input \in CheckinInputs : ReceiveCheckin(input)
    \/ \E i \in 1..MaxRequests : ReadCheckins(i)
    \/ \E i \in 1..MaxRequests, written \in BOOLEAN : WriteCheckins(i, written)

SpecEndpoint == Init /\ [][NextEndpoint]_vars

\* C30: every check-in request the endpoint answered with success has its
\* attendee's entry in the stored map, whatever other requests were handled
\* at the same time.
ConcurrentCheckinsKept ==
    \A i \in DOMAIN requests :
        (requests[i].phase = "done" /\ requests[i].success)
            => HandleGetCheckins[requests[i].input.attendeeId] # NoEntry

=============================================================================
